---- MODULE Spec2Model ----
(***************************************************************************)
(* Model of src/app.py (Linguist Pro): the process_audio pipeline          *)
(* (save -> transcribe -> translate -> synthesize), generate_speech, and   *)
(* the part of main that calls the pipeline and renders its result.        *)
(* Every user session runs main on its own thread; the sessions share the  *)
(* temporary directory of the process.  The three backends (Whisper,       *)
(* GoogleTranslator, Edge TTS) are external: each call returns any value   *)
(* of its result type or raises.                                           *)
(***************************************************************************)
EXTENDS Integers, Sequences, FiniteSets, TLC

(* ------------------------------ bounds --------------------------------- *)
\* Longest text a backend returns.
MaxLen == 3
\* Concurrent user sessions (one process_audio invocation each).
NumUsers == 2
\* Names the temporary directory can hand out.
NumPaths == 3

Users == 1..NumUsers
Paths == {<<"tmp", k>> : k \in 1..NumPaths}

(* ------------------------------ values --------------------------------- *)
\* Python's None.
None == <<"None">>
\* No value yet (a local not assigned, a backend not called).
Unset == <<"unset">>
\* A backend call that raised.
Raised == <<"raised">>

Whitespace == {" "}
Chars == Whitespace \cup {"a"}
TextUpTo(n) == UNION {[1..k -> Chars] : k \in 0..n}

VOICE_MAP ==
    [l \in {"Hindi", "English", "Tamil", "Telugu", "Kannada", "Malayalam",
            "Marathi", "Bengali", "Gujarati", "Punjabi"} |->
        CASE l = "Hindi" -> "hi-IN-SwaraNeural"
          [] l = "English" -> "en-IN-NeerjaNeural"
          [] l = "Tamil" -> "ta-IN-PallaviNeural"
          [] l = "Telugu" -> "te-IN-ShrutiNeural"
          [] l = "Kannada" -> "kn-IN-GaganNeural"
          [] l = "Malayalam" -> "ml-IN-SobhanaNeural"
          [] l = "Marathi" -> "mr-IN-AarohiNeural"
          [] l = "Bengali" -> "bn-IN-TanishaaNeural"
          [] l = "Gujarati" -> "gu-IN-DhwaniNeural"
          [] l = "Punjabi" -> "pa-IN-OjasNeural"]

LANG_CODES ==
    [l \in {"Hindi", "English", "Tamil", "Telugu", "Kannada", "Malayalam",
            "Marathi", "Bengali", "Gujarati", "Punjabi"} |->
        CASE l = "Hindi" -> "hi"
          [] l = "English" -> "en"
          [] l = "Tamil" -> "ta"
          [] l = "Telugu" -> "te"
          [] l = "Kannada" -> "kn"
          [] l = "Malayalam" -> "ml"
          [] l = "Marathi" -> "mr"
          [] l = "Bengali" -> "bn"
          [] l = "Gujarati" -> "gu"
          [] l = "Punjabi" -> "pa"]

\* VOICE_MAP.get(tgt_lang, "en-US-AriaNeural")
VoiceFor(lang) ==
    IF lang \in DOMAIN VOICE_MAP THEN VOICE_MAP[lang] ELSE "en-US-AriaNeural"

\* Languages main's two select boxes offer (a sample of LANG_CODES.keys()).
MainLangs == {"English", "Hindi"}
\* Languages a caller of process_audio may pass; "French" has no mapping.
CallerLangs == MainLangs \cup {"French"}

\* Mutant of Strip: the text is used as returned, not stripped.
StripNothing(s) == s

\* Mutant of Strip: lstrip(), only the leading whitespace is dropped.
RECURSIVE StripLeft(_)
StripLeft(s) ==
    IF s = <<>> THEN s
    ELSE IF Head(s) \in Whitespace THEN StripLeft(Tail(s))
    ELSE s

\* str.strip(): drop leading and trailing whitespace.
RECURSIVE Strip(_)
Strip(s) ==
    IF s = <<>> THEN s
    ELSE IF Head(s) \in Whitespace THEN Strip(Tail(s))
    ELSE IF s[Len(s)] \in Whitespace THEN Strip(SubSeq(s, 1, Len(s) - 1))
    ELSE s

\* Mutant of Falsy: the emptiness test is missing.
NeverFalsy(x) == FALSE

\* Python truthiness of a str-or-None value: `not x`.
Falsy(x) == x = None \/ x = <<>>

\* The messages process_audio returns in the fourth slot.
NoSpeechMsg == <<"No speech detected in the audio.">>
TtsFailedMsg == <<"TTS generation failed">>
ErrorMsg(e) == <<"Error: ">> \o e

(* ------------------------------- state --------------------------------- *)
VARIABLES
    fs,                 \* the temporary directory: path -> file
    pc,                 \* each session's position in main / process_audio
    src_lang, tgt_lang, \* process_audio's arguments
    audio_path,         \* local of process_audio
    output_audio_path,  \* local of process_audio
    asr_text,           \* result["text"] of model.transcribe (raw)
    source_text,        \* local of process_audio
    mt_arg,             \* the text handed to translator.translate
    translated_text,    \* local of process_audio
    tts_arg,            \* the text handed to generate_speech
    tts_ok,             \* `success`, generate_speech's return value
    exc,                \* the exception caught at line 245
    ret,                \* the 4-tuple process_audio returned
    calls,              \* backend calls of the invocation, in order
    ui,                 \* what main rendered: none / error / success
    foreign             \* the session touched a file another one created

vars == <<fs, pc, src_lang, tgt_lang, audio_path, output_audio_path, asr_text,
          source_text, mt_arg, translated_text, tts_arg, tts_ok, exc, ret,
          calls, ui, foreign>>

NoFile == [exists |-> FALSE, owner |-> 0, suffix |-> "", data |-> FALSE]

Exists(path) == path \in Paths /\ fs[path].exists

Init ==
    /\ fs = [n \in Paths |-> NoFile]
    /\ pc = [p \in Users |-> "idle"]
    /\ src_lang = [p \in Users |-> ""]
    /\ tgt_lang = [p \in Users |-> ""]
    /\ audio_path = [p \in Users |-> None]
    /\ output_audio_path = [p \in Users |-> None]
    /\ asr_text = [p \in Users |-> Unset]
    /\ source_text = [p \in Users |-> Unset]
    /\ mt_arg = [p \in Users |-> Unset]
    /\ translated_text = [p \in Users |-> Unset]
    /\ tts_arg = [p \in Users |-> Unset]
    /\ tts_ok = [p \in Users |-> "unset"]
    /\ exc = [p \in Users |-> None]
    /\ ret = [p \in Users |-> Unset]
    /\ calls = [p \in Users |-> <<>>]
    /\ ui = [p \in Users |-> "none"]
    /\ foreign = [p \in Users |-> FALSE]

(* --------------------------- temporary files --------------------------- *)
\* Mutant of FreshNames: a name is picked without the O_EXCL test.
AnyNames == Paths

\* The names tempfile.NamedTemporaryFile may return: it opens with O_EXCL,
\* so never the name of a file that exists.
FreshNames == {n \in Paths : ~fs[n].exists}

\* The directory after session p opened `n` for a new temporary file.
Created(f, p, n, sfx) ==
    [f EXCEPT ![n] = IF f[n].exists
                     THEN [f[n] EXCEPT !.data = FALSE]
                     ELSE [exists |-> TRUE, owner |-> p, suffix |-> sfx,
                           data |-> FALSE]]

\* The directory after session p wrote `n` (open(n, "wb") creates it).
Written(f, p, n, d) ==
    [f EXCEPT ![n] = IF f[n].exists
                     THEN [f[n] EXCEPT !.data = d]
                     ELSE [exists |-> TRUE, owner |-> p, suffix |-> ".mp3",
                           data |-> d]]

\* os.unlink(n)
Unlinked(f, n) == [f EXCEPT ![n] = NoFile]

\* `if path and os.path.exists(path): os.unlink(path)`
UnlinkIfExists(f, path) ==
    IF path # None /\ f[path].exists THEN Unlinked(f, path) ELSE f

\* Session p reads, writes or unlinks a file that another session created.
Touches(p, path) == path # None /\ fs[path].exists /\ fs[path].owner # p

(* ------------------------------ process_audio -------------------------- *)
\* main's button handler calls process_audio(audio_data, src_lang, tgt_lang,
\* model); `langs` are the languages the caller may pass.
ProcessAudioCall(p, langs) ==
    /\ pc[p] = "idle"
    /\ \E s \in langs, t \in langs :
        /\ src_lang' = [src_lang EXCEPT ![p] = s]
        /\ tgt_lang' = [tgt_lang EXCEPT ![p] = t]
    /\ pc' = [pc EXCEPT ![p] = "save"]
    /\ UNCHANGED <<fs, audio_path, output_audio_path, asr_text, source_text,
                   mt_arg, translated_text, tts_arg, tts_ok, exc, ret, calls,
                   ui, foreign>>

\* main, button pressed with no audio: a warning, and no pipeline run.
NoAudio(p) ==
    /\ pc[p] = "idle"
    /\ ui' = [ui EXCEPT ![p] = "warning"]
    /\ pc' = [pc EXCEPT ![p] = "done"]
    /\ UNCHANGED <<fs, src_lang, tgt_lang, audio_path, output_audio_path,
                   asr_text, source_text, mt_arg, translated_text, tts_arg,
                   tts_ok, exc, ret, calls, foreign>>

\* 1. Save Audio Temporarily.  The file is created, then written, then its
\* name recorded; either step may raise.
SaveAudio(p) ==
    /\ pc[p] = "save"
    /\ \/ /\ exc' = [exc EXCEPT ![p] = <<"tempfile">>]
          /\ pc' = [pc EXCEPT ![p] = "except"]
          /\ UNCHANGED <<fs, audio_path, foreign>>
       \/ \E n \in FreshNames :
            /\ foreign' = [foreign EXCEPT ![p] = @ \/ Touches(p, n)]
            /\ \/ /\ fs' = Created(fs, p, n, ".wav")
                  /\ exc' = [exc EXCEPT ![p] = <<"write">>]
                  /\ pc' = [pc EXCEPT ![p] = "except"]
                  /\ UNCHANGED audio_path
               \/ /\ fs' = Written(Created(fs, p, n, ".wav"), p, n, TRUE)
                  /\ audio_path' = [audio_path EXCEPT ![p] = n]
                  /\ pc' = [pc EXCEPT ![p] = "transcribe"]
                  /\ UNCHANGED exc
    /\ UNCHANGED <<src_lang, tgt_lang, output_audio_path, asr_text,
                   source_text, mt_arg, translated_text, tts_arg, tts_ok, ret,
                   calls, ui>>

\* 2. Transcribe (ASR): the source-code lookup, the recognizer call, the
\* strip and the no-speech return.  `outs` are the recognizer's results.
Transcribe(p, outs) ==
    /\ pc[p] = "transcribe"
    /\ IF src_lang[p] \notin DOMAIN LANG_CODES
       THEN /\ exc' = [exc EXCEPT ![p] = <<src_lang[p]>>]
            /\ pc' = [pc EXCEPT ![p] = "except"]
            /\ UNCHANGED <<asr_text, source_text, ret, calls, foreign>>
       ELSE \E out \in outs :
            /\ Exists(audio_path[p]) \/ out = Raised
            /\ calls' = [calls EXCEPT ![p] = Append(@, "asr")]
            /\ foreign' = [foreign EXCEPT ![p] = @ \/ Touches(p, audio_path[p])]
            /\ asr_text' = [asr_text EXCEPT ![p] = out]
            /\ IF out = Raised
               THEN /\ exc' = [exc EXCEPT ![p] = <<"asr">>]
                    /\ pc' = [pc EXCEPT ![p] = "except"]
                    /\ UNCHANGED <<source_text, ret>>
               ELSE /\ source_text' = [source_text EXCEPT ![p] = Strip(out)]
                    /\ UNCHANGED exc
                    /\ IF Falsy(Strip(out))
                       THEN /\ ret' = [ret EXCEPT ![p] =
                                         <<None, None, None, NoSpeechMsg>>]
                            /\ pc' = [pc EXCEPT ![p] = "returned"]
                       ELSE /\ pc' = [pc EXCEPT ![p] = "translate"]
                            /\ UNCHANGED ret
    /\ UNCHANGED <<fs, src_lang, tgt_lang, audio_path, output_audio_path,
                   mt_arg, translated_text, tts_arg, tts_ok, ui>>

\* 3. Translate: the target-code lookup and the translator call.  `outs` are
\* the translator's results; whatever it returns is kept as it is.
Translate(p, outs) ==
    /\ pc[p] = "translate"
    /\ IF tgt_lang[p] \notin DOMAIN LANG_CODES
       THEN /\ exc' = [exc EXCEPT ![p] = <<tgt_lang[p]>>]
            /\ pc' = [pc EXCEPT ![p] = "except"]
            /\ UNCHANGED <<mt_arg, translated_text, calls>>
       ELSE \E out \in outs :
            /\ calls' = [calls EXCEPT ![p] = Append(@, "mt")]
            /\ mt_arg' = [mt_arg EXCEPT ![p] = source_text[p]]
            /\ IF out = Raised
               THEN /\ exc' = [exc EXCEPT ![p] = <<"mt">>]
                    /\ pc' = [pc EXCEPT ![p] = "except"]
                    /\ UNCHANGED translated_text
               ELSE /\ translated_text' = [translated_text EXCEPT ![p] = out]
                    /\ pc' = [pc EXCEPT ![p] = "mkout"]
                    /\ UNCHANGED exc
    /\ UNCHANGED <<fs, src_lang, tgt_lang, audio_path, output_audio_path,
                   asr_text, source_text, tts_arg, tts_ok, ret, ui, foreign>>

\* 4. Synthesize, first half: the output temporary file.
MakeOutput(p) ==
    /\ pc[p] = "mkout"
    /\ \/ /\ exc' = [exc EXCEPT ![p] = <<"tempfile">>]
          /\ pc' = [pc EXCEPT ![p] = "except"]
          /\ UNCHANGED <<fs, output_audio_path, foreign>>
       \/ \E n \in FreshNames :
            /\ fs' = Created(fs, p, n, ".mp3")
            /\ foreign' = [foreign EXCEPT ![p] = @ \/ Touches(p, n)]
            /\ output_audio_path' = [output_audio_path EXCEPT ![p] = n]
            /\ pc' = [pc EXCEPT ![p] = "synth"]
            /\ UNCHANGED exc
    /\ UNCHANGED <<src_lang, tgt_lang, audio_path, asr_text, source_text,
                   mt_arg, translated_text, tts_arg, tts_ok, ret, calls, ui>>

\* What one Edge TTS call may do: save audio, save nothing, or raise (before
\* or after it wrote to the file).
TtsOutcomes == {"audio", "silent", "raise", "raise-partial"}

\* Mutant of SpeechCalls: generate_speech tries the backend again after a
\* failure.
SpeechCallsRetry(o) ==
    IF o \in {"raise", "raise-partial"} THEN <<"tts", "tts">> ELSE <<"tts">>

\* The backend calls one generate_speech makes: a single Communicate.save.
SpeechCalls(o) == <<"tts">>

\* generate_speech(text, voice, output_path): True when the call returned,
\* False (the exception absorbed) when it raised.
GenerateSpeech(o) == o \in {"audio", "silent"}

\* The directory after generate_speech ran with outcome `o`.
SpeechFile(f, p, path, o) ==
    CASE o = "audio" -> Written(f, p, path, TRUE)
      [] o = "silent" -> Written(f, p, path, FALSE)
      [] o = "raise-partial" -> Written(f, p, path, TRUE)
      [] OTHER -> f

\* 4. Synthesize, second half: generate_speech and the TTS-failure return.
Synthesize(p, outs) ==
    /\ pc[p] = "synth"
    /\ \E o \in outs :
        /\ calls' = [calls EXCEPT ![p] = @ \o SpeechCalls(o)]
        /\ tts_arg' = [tts_arg EXCEPT ![p] = translated_text[p]]
        /\ fs' = SpeechFile(fs, p, output_audio_path[p], o)
        /\ foreign' = [foreign EXCEPT ![p] =
                         @ \/ Touches(p, output_audio_path[p])]
        /\ tts_ok' = [tts_ok EXCEPT ![p] =
                        IF GenerateSpeech(o) THEN "True" ELSE "False"]
        /\ IF ~GenerateSpeech(o)
           THEN /\ ret' = [ret EXCEPT ![p] =
                            <<source_text[p], translated_text[p], None,
                              TtsFailedMsg>>]
                /\ pc' = [pc EXCEPT ![p] = "returned"]
           ELSE /\ pc' = [pc EXCEPT ![p] = "cleanup"]
                /\ UNCHANGED ret
    /\ UNCHANGED <<src_lang, tgt_lang, audio_path, output_audio_path,
                   asr_text, source_text, mt_arg, translated_text, exc, ui>>

\* Cleanup Input Audio, and the success return.
CleanupInput(p) ==
    /\ pc[p] = "cleanup"
    /\ fs' = UnlinkIfExists(fs, audio_path[p])
    /\ foreign' = [foreign EXCEPT ![p] = @ \/ Touches(p, audio_path[p])]
    /\ ret' = [ret EXCEPT ![p] = <<source_text[p], translated_text[p],
                                   output_audio_path[p], None>>]
    /\ pc' = [pc EXCEPT ![p] = "returned"]
    /\ UNCHANGED <<src_lang, tgt_lang, audio_path, output_audio_path,
                   asr_text, source_text, mt_arg, translated_text, tts_arg,
                   tts_ok, exc, calls, ui>>

\* Mutant of ExceptCleanup: the except clause returns without cleaning up.
ExceptNoCleanup(f, inp, outp) == f

\* The files the except clause removes: the recorded input and output.
ExceptCleanup(f, inp, outp) == UnlinkIfExists(UnlinkIfExists(f, inp), outp)

\* except Exception as e: cleanup on error, and the error return.
Except(p) ==
    /\ pc[p] = "except"
    /\ fs' = ExceptCleanup(fs, audio_path[p], output_audio_path[p])
    /\ foreign' = [foreign EXCEPT ![p] = @ \/ Touches(p, audio_path[p])
                                           \/ Touches(p, output_audio_path[p])]
    /\ ret' = [ret EXCEPT ![p] = <<None, None, None, ErrorMsg(exc[p])>>]
    /\ pc' = [pc EXCEPT ![p] = "returned"]
    /\ UNCHANGED <<src_lang, tgt_lang, audio_path, output_audio_path,
                   asr_text, source_text, mt_arg, translated_text, tts_arg,
                   tts_ok, exc, calls, ui>>

(* --------------------------------- main -------------------------------- *)
\* Handle Results: `if error`, `if not src_text`, else the success message.
Rendered(r) ==
    IF r[4] # None /\ r[4] # <<>> THEN "error"
    ELSE IF Falsy(r[1]) THEN "error"
    ELSE "success"

ShowResult(p) ==
    /\ pc[p] = "returned"
    /\ ui' = [ui EXCEPT ![p] = Rendered(ret[p])]
    /\ pc' = [pc EXCEPT ![p] = IF Rendered(ret[p]) = "success"
                               THEN "player" ELSE "done"]
    /\ UNCHANGED <<fs, src_lang, tgt_lang, audio_path, output_audio_path,
                   asr_text, source_text, mt_arg, translated_text, tts_arg,
                   tts_ok, exc, ret, calls, foreign>>

\* Audio Player: read the synthesized file, then unlink it.
PlayAudio(p) ==
    /\ pc[p] = "player"
    /\ fs' = UnlinkIfExists(fs, ret[p][3])
    /\ foreign' = [foreign EXCEPT ![p] = @ \/ Touches(p, ret[p][3])]
    /\ pc' = [pc EXCEPT ![p] = "done"]
    /\ UNCHANGED <<src_lang, tgt_lang, audio_path, output_audio_path,
                   asr_text, source_text, mt_arg, translated_text, tts_arg,
                   tts_ok, exc, ret, calls, ui>>

(* ---------------------------- specifications --------------------------- *)
\* What the recognizer and the translator may return.
AsrResults == TextUpTo(MaxLen) \cup {Raised}
MtResults == TextUpTo(MaxLen) \cup {None, Raised}

\* One session alone, the backends unrestricted.
FirstUser == {p \in Users : \A q \in Users : p <= q}

Next ==
    \E p \in FirstUser :
        \/ ProcessAudioCall(p, CallerLangs)
        \/ NoAudio(p)
        \/ SaveAudio(p)
        \/ Transcribe(p, AsrResults)
        \/ Translate(p, MtResults)
        \/ MakeOutput(p)
        \/ Synthesize(p, TtsOutcomes)
        \/ CleanupInput(p)
        \/ Except(p)
        \/ ShowResult(p)
        \/ PlayAudio(p)

Spec == Init /\ [][Next]_vars

\* All sessions interleaved; one sample of each kind of backend result.
AsrSamples == {Raised, <<>>, <<"a">>}
MtSamples == {Raised, <<"a">>}
TtsSamples == {"audio", "raise"}
ConcLangs == {"Hindi"}

NextConc ==
    \E p \in Users :
        \/ ProcessAudioCall(p, ConcLangs)
        \/ NoAudio(p)
        \/ SaveAudio(p)
        \/ Transcribe(p, AsrSamples)
        \/ Translate(p, MtSamples)
        \/ MakeOutput(p)
        \/ Synthesize(p, TtsSamples)
        \/ CleanupInput(p)
        \/ Except(p)
        \/ ShowResult(p)
        \/ PlayAudio(p)

SpecConc == Init /\ [][NextConc]_vars

(* ------------------------------ vocabulary ----------------------------- *)
\* A str a backend returned (not None, not an exception, not unset).
IsText(x) == x \notin {None, Unset, Raised}

\* Empty or whitespace only.
Blank(s) == \A i \in 1..Len(s) : s[i] \in Whitespace

\* t is s without its surrounding whitespace, and is not empty.
IsTrimOf(t, s) ==
    \E i \in 1..Len(s) : \E j \in i..Len(s) :
        /\ t = SubSeq(s, i, j)
        /\ s[i] \notin Whitespace
        /\ s[j] \notin Whitespace
        /\ \A k \in 1..Len(s) : (k < i \/ k > j) => s[k] \in Whitespace

\* How often the invocation of session p called a backend.
Count(p, stage) ==
    Cardinality({i \in 1..Len(calls[p]) : calls[p][i] = stage})

\* process_audio has returned to its caller.
HasReturned(p) == ret[p] # Unset

\* The recognizer raised, or returned an empty / whitespace-only transcript.
AsrBlank(p) == IsText(asr_text[p]) /\ Blank(asr_text[p])
AsrFailed(p) == asr_text[p] = Raised \/ AsrBlank(p)

\* The translator raised.
MtRaised(p) == exc[p] = <<"mt">>

\* The translator returned None or an empty / whitespace-only text.
MtBlank(p) ==
    translated_text[p] = None
        \/ (IsText(translated_text[p]) /\ Blank(translated_text[p]))

\* The temporary files the invocation of session p created and that exist.
OwnFiles(p, sfx) ==
    {n \in Paths : fs[n].exists /\ fs[n].owner = p /\ fs[n].suffix = sfx}

\* A language the pipeline has no code or no voice for.
Unmapped(lang) == lang \notin DOMAIN LANG_CODES \/ lang \notin DOMAIN VOICE_MAP

(* -------------------------------- claims ------------------------------- *)
\* C1: a failed stage prevents every later stage.  Once the recognizer has
\* raised or returned an empty / whitespace-only transcript, the recognizer
\* call is the only backend call of the invocation; once the translator has
\* raised, the synthesizer is never called, and the invocation returns a
\* failure.
C1_FailedStageStopsPipeline ==
    \A p \in Users :
        /\ AsrFailed(p) => calls[p] = <<"asr">>
        /\ MtRaised(p) => Count(p, "tts") = 0
        /\ (HasReturned(p) /\ (AsrFailed(p) \/ MtRaised(p)))
              => (ret[p][3] = None /\ ret[p][4] # None)

\* C1 witness: the translator raised and process_audio has returned.
C1_Witness ==
    \E p \in Users : pc[p] = "returned" /\ MtRaised(p) /\ Count(p, "mt") = 1

\* C2 (as claimed): when process_audio returns, the input temporary file of
\* the invocation no longer exists, and on a failure return its output
\* temporary file does not exist either.
C2_TempFilesReclaimed ==
    \A p \in Users :
        pc[p] = "returned" =>
            /\ OwnFiles(p, ".wav") = {}
            /\ ret[p][4] # None => OwnFiles(p, ".mp3") = {}

\* C3 (as claimed): a request with an unmapped source or target language
\* fails before any backend is called.
C3_PreconditionsFirst ==
    \A p \in Users :
        (pc[p] # "idle" /\ (Unmapped(src_lang[p]) \/ Unmapped(tgt_lang[p])))
            => calls[p] = <<>>

\* C4 (as claimed): a return with error = None carries a non-empty
\* transcript, a non-empty translation and an existing non-empty audio file,
\* and main shows the success message only for such a result.
C4_Complete(p) ==
    /\ ~Falsy(ret[p][1])
    /\ ~Falsy(ret[p][2])
    /\ ret[p][3] # None
    /\ fs[ret[p][3]].exists
    /\ fs[ret[p][3]].data

C4_NoPartialSuccess ==
    \A p \in Users :
        /\ (pc[p] = "returned" /\ ret[p][4] = None) => C4_Complete(p)
        /\ (pc[p] = "player" /\ ui[p] = "success") => C4_Complete(p)

\* C5: an empty or whitespace-only recognizer output makes process_audio
\* return (None, None, None, "No speech detected ...") with no translator
\* call; any other recognizer output goes on to the Translate step, and the
\* text the translator receives is that output without its surrounding
\* whitespace.
C5_BlankTranscriptIsNoSpeech ==
    \A p \in Users :
        (HasReturned(p) /\ IsText(asr_text[p])) =>
            IF Blank(asr_text[p])
            THEN /\ ret[p] = <<None, None, None, NoSpeechMsg>>
                 /\ mt_arg[p] = Unset
            ELSE /\ ret[p][4] # NoSpeechMsg
                 /\ IsTrimOf(source_text[p], asr_text[p])
                 /\ tgt_lang[p] \in DOMAIN LANG_CODES
                       => IsTrimOf(mt_arg[p], asr_text[p])

\* C5 witness: a transcript with surrounding whitespace reached the
\* translator.
C5_Witness ==
    \E p \in Users :
        /\ HasReturned(p)
        /\ IsText(asr_text[p])
        /\ mt_arg[p] # Unset
        /\ mt_arg[p] # asr_text[p]

\* C6 (as claimed): a translator result that is None, empty or whitespace
\* only makes process_audio return a failure without calling the synthesizer.
C6_BlankTranslationFails ==
    \A p \in Users :
        (HasReturned(p) /\ MtBlank(p)) =>
            (ret[p][4] # None /\ Count(p, "tts") = 0)

C8_CallOrder ==
    \A p \in Users :
        \E k \in 0..3 : calls[p] = SubSeq(<<"asr", "mt", "tts">>, 1, k)

\* C8 witness: an invocation in which the synthesizer failed after all three
\* backends were called.
C8_Witness ==
    \E p \in Users :
        pc[p] = "returned" /\ Len(calls[p]) = 3 /\ tts_ok[p] = "False"

\* C9: no session reads, writes or unlinks a temporary file another session
\* created, and a file a session recorded stays its own, and in place, until
\* that session itself unlinks it.
C9_OwnFilesOnly ==
    \A p \in Users :
        /\ ~foreign[p]
        /\ (audio_path[p] # None
              /\ pc[p] \in {"transcribe", "translate", "mkout", "synth",
                            "cleanup", "except"})
              => (fs[audio_path[p]].exists /\ fs[audio_path[p]].owner = p)
        /\ (output_audio_path[p] # None
              /\ pc[p] \in {"synth", "cleanup", "except", "returned", "player"})
              => (fs[output_audio_path[p]].exists
                    /\ fs[output_audio_path[p]].owner = p)

\* C9 witness: two invocations overlap, one holding its input and output
\* files while the other holds its input file.
C9_Witness ==
    \E p \in Users : \E q \in Users \ {p} :
        /\ pc[p] = "synth"
        /\ pc[q] = "translate"
        /\ OwnFiles(p, ".wav") # {}
        /\ OwnFiles(p, ".mp3") # {}
        /\ OwnFiles(q, ".wav") # {}

\* C10: an exception raised in process_audio outside generate_speech is
\* caught: the function returns (None, None, None, "Error: <message>") and
\* the files it recorded in audio_path and output_audio_path no longer
\* exist; an exception inside the synthesizer call instead gives
\* (transcript, translation, None, "TTS generation failed").
C10_ExceptionsCaught ==
    \A p \in Users :
        pc[p] = "returned" =>
            /\ exc[p] # None =>
                  /\ ret[p] = <<None, None, None, <<"Error: ">> \o exc[p]>>
                  /\ audio_path[p] # None => ~fs[audio_path[p]].exists
                  /\ output_audio_path[p] # None
                        => ~fs[output_audio_path[p]].exists
            /\ tts_ok[p] = "False" =>
                  /\ exc[p] = None
                  /\ ret[p] = <<source_text[p], translated_text[p], None,
                                TtsFailedMsg>>

\* C10 witness: the recognizer raised after the input file was recorded,
\* and process_audio has returned.
C10_Witness ==
    \E p \in Users :
        /\ pc[p] = "returned"
        /\ exc[p] = <<"asr">>
        /\ audio_path[p] # None

====
